---- MODULE Spec2Model ----
(***************************************************************************)
(* MultiaddressesWithStats (comms/core/src/net_address/                    *)
(* mutliaddresses_with_stats.rs): the per-peer registry of network         *)
(* addresses with usage statistics.                                        *)
(*                                                                         *)
(* The registry is a Vec<MultiaddrWithStats>.  The record type             *)
(* MultiaddrWithStats lives in multiaddr_with_stats.rs; its operations     *)
(* (the rec_* operators below) follow the written description of the       *)
(* AddressRecord component.                                                *)
(***************************************************************************)
EXTENDS Integers, Sequences, FiniteSets

(* ------------------------------ bounds --------------------------------- *)
NumAddrs == 2
NumSources == 2
MaxLen == 2
MaxTime == 3
MaxAttempts == 2
MaxCount == 2
MaxSample == 2
MaxOps == 3

Addrs == 1..NumAddrs
\* PeerAddressSource as its trust rank: a larger number is a more trusted source.
Sources == 1..NumSources
Samples == {0, MaxSample}

\* Option::None of a timestamp or of a latency (None sorts below every Some).
None == -1

RECURSIVE SeqsUpTo(_)
SeqsUpTo(n) ==
    IF n = 0 THEN {<<>>}
    ELSE LET shorter == SeqsUpTo(n - 1)
         IN  shorter \cup {Append(s, a) : s \in {t \in shorter : Len(t) = n - 1}, a \in Addrs}

\* The address lists a caller may pass: any Vec<Multiaddr>, repetitions included.
AddrLists == SeqsUpTo(MaxLen)

Max(a, b) == IF a >= b THEN a ELSE b

(* ------------------------- MultiaddrWithStats -------------------------- *)
rec_new(address, source) ==
    [address |-> address, source |-> source,
     last_seen |-> None, last_attempted |-> None,
     connection_attempts |-> 0,
     avg_latency |-> None, latency_sample_count |-> 0,
     offline_since |-> None]

rec_update_source_if_better(r, source) ==
    IF source > r.source THEN [r EXCEPT !.source = source] ELSE r

rec_update_latency(r, sample) ==
    LET n == r.latency_sample_count
        old == IF r.avg_latency = None THEN 0 ELSE r.avg_latency
    IN  [r EXCEPT !.avg_latency = (old * n + sample) \div (n + 1),
                  !.latency_sample_count = n + 1]

rec_mark_last_seen_now(r, t) ==
    [r EXCEPT !.last_seen = t, !.last_attempted = t,
              !.connection_attempts = 0, !.offline_since = None]

rec_mark_failed_connection_attempt(r, t) ==
    [r EXCEPT !.last_attempted = t,
              !.connection_attempts = r.connection_attempts + 1,
              !.offline_since = IF r.connection_attempts = 0 THEN t ELSE r.offline_since]

rec_reset_connection_attempts(r) ==
    [r EXCEPT !.connection_attempts = 0, !.offline_since = None]

rec_offline_at(r) ==
    IF r.connection_attempts = 0 THEN None ELSE r.offline_since

rec_merge(r, o) ==
    LET fewer == o.connection_attempts < r.connection_attempts
        more == o.latency_sample_count > r.latency_sample_count
    IN  [r EXCEPT !.last_seen = Max(r.last_seen, o.last_seen),
                  !.last_attempted = Max(r.last_attempted, o.last_attempted),
                  !.source = Max(r.source, o.source),
                  !.connection_attempts = IF fewer THEN o.connection_attempts ELSE @,
                  !.offline_since = IF fewer THEN o.offline_since ELSE @,
                  !.avg_latency = IF more THEN o.avg_latency ELSE @,
                  !.latency_sample_count = IF more THEN o.latency_sample_count ELSE @]

\* Ord: fewer connection_attempts first, then lower avg_latency with None last;
\* records equal on both keys compare Equal.
rec_less(a, b) ==
    \/ a.connection_attempts < b.connection_attempts
    \/ /\ a.connection_attempts = b.connection_attempts
       /\ a.avg_latency # None
       /\ \/ b.avg_latency = None
          \/ a.avg_latency < b.avg_latency

(* ----------------------- MultiaddressesWithStats ----------------------- *)
\* slice::sort is stable: an element goes after every element not greater than it.
RECURSIVE insert_sorted(_, _)
insert_sorted(sorted, r) ==
    IF sorted = <<>> THEN <<r>>
    ELSE IF rec_less(r, sorted[Len(sorted)])
         THEN Append(insert_sorted(SubSeq(sorted, 1, Len(sorted) - 1), r), sorted[Len(sorted)])
         ELSE Append(sorted, r)

RECURSIVE sort(_)
sort(addresses) ==
    IF addresses = <<>> THEN <<>>
    ELSE insert_sorted(sort(SubSeq(addresses, 1, Len(addresses) - 1)), addresses[Len(addresses)])

from_addresses_with_source(addresses, source) ==
    [i \in 1..Len(addresses) |-> rec_new(addresses[i], source)]

empty == <<>>

\* Option<&MultiaddrWithStats> as a sequence of no or one record.
best(self) == IF self = <<>> THEN <<>> ELSE <<self[1]>>

iter(self) == [i \in 1..Len(self) |-> self[i].address]

len(self) == Len(self)

contains(self, net_address) == \E i \in 1..Len(self) : self[i].address = net_address

\* Index of the first record with the address, 0 when there is none.
find_address_mut(self, address) ==
    IF contains(self, address)
    THEN CHOOSE i \in 1..Len(self) :
            /\ self[i].address = address
            /\ \A j \in 1..(i - 1) : self[j].address # address
    ELSE 0

\* last_seen with the comparison turned round: it keeps the earliest time.
RECURSIVE last_seen_earliest_from(_, _, _)
last_seen_earliest_from(self, i, latest_valid_datetime) ==
    IF i > Len(self) THEN latest_valid_datetime
    ELSE IF self[i].last_seen = None THEN last_seen_earliest_from(self, i + 1, latest_valid_datetime)
    ELSE IF latest_valid_datetime = None THEN last_seen_earliest_from(self, i + 1, self[i].last_seen)
    ELSE IF latest_valid_datetime > self[i].last_seen
         THEN last_seen_earliest_from(self, i + 1, self[i].last_seen)
         ELSE last_seen_earliest_from(self, i + 1, latest_valid_datetime)

last_seen_earliest(self) == last_seen_earliest_from(self, 1, None)

RECURSIVE last_seen_from(_, _, _)
last_seen_from(self, i, latest_valid_datetime) ==
    IF i > Len(self) THEN latest_valid_datetime
    ELSE IF self[i].last_seen = None THEN last_seen_from(self, i + 1, latest_valid_datetime)
    ELSE IF latest_valid_datetime = None THEN last_seen_from(self, i + 1, self[i].last_seen)
    ELSE IF latest_valid_datetime < self[i].last_seen
         THEN last_seen_from(self, i + 1, self[i].last_seen)
         ELSE last_seen_from(self, i + 1, latest_valid_datetime)

last_seen(self) == last_seen_from(self, 1, None)

RECURSIVE offline_at_from(_, _, _)
offline_at_from(self, i, earliest_offline_at) ==
    IF i > Len(self) THEN earliest_offline_at
    ELSE IF rec_offline_at(self[i]) = None THEN None
    ELSE IF earliest_offline_at = None
         THEN offline_at_from(self, i + 1, rec_offline_at(self[i]))
    ELSE IF earliest_offline_at > rec_offline_at(self[i])
         THEN offline_at_from(self, i + 1, rec_offline_at(self[i]))
         ELSE offline_at_from(self, i + 1, earliest_offline_at)

\* offline_at that steps over the records that are not offline, as last_seen does.
RECURSIVE offline_at_skipping(_, _, _)
offline_at_skipping(self, i, earliest_offline_at) ==
    IF i > Len(self) THEN earliest_offline_at
    ELSE IF rec_offline_at(self[i]) = None
         THEN offline_at_skipping(self, i + 1, earliest_offline_at)
    ELSE IF earliest_offline_at = None
         THEN offline_at_skipping(self, i + 1, rec_offline_at(self[i]))
    ELSE IF earliest_offline_at > rec_offline_at(self[i])
         THEN offline_at_skipping(self, i + 1, rec_offline_at(self[i]))
         ELSE offline_at_skipping(self, i + 1, earliest_offline_at)

offline_at_online_skipped(self) == offline_at_skipping(self, 1, None)

offline_at(self) == offline_at_from(self, 1, None)

\* last_attempted with the comparison turned round: it keeps the earliest time.
RECURSIVE last_attempted_earliest_from(_, _, _)
last_attempted_earliest_from(self, i, latest_valid_datetime) ==
    IF i > Len(self) THEN latest_valid_datetime
    ELSE IF self[i].last_attempted = None
         THEN last_attempted_earliest_from(self, i + 1, latest_valid_datetime)
    ELSE IF latest_valid_datetime = None
         THEN last_attempted_earliest_from(self, i + 1, self[i].last_attempted)
    ELSE IF latest_valid_datetime > self[i].last_attempted
         THEN last_attempted_earliest_from(self, i + 1, self[i].last_attempted)
         ELSE last_attempted_earliest_from(self, i + 1, latest_valid_datetime)

last_attempted_earliest(self) == last_attempted_earliest_from(self, 1, None)

RECURSIVE last_attempted_from(_, _, _)
last_attempted_from(self, i, latest_valid_datetime) ==
    IF i > Len(self) THEN latest_valid_datetime
    ELSE IF self[i].last_attempted = None
         THEN last_attempted_from(self, i + 1, latest_valid_datetime)
    ELSE IF latest_valid_datetime = None
         THEN last_attempted_from(self, i + 1, self[i].last_attempted)
    ELSE IF latest_valid_datetime < self[i].last_attempted
         THEN last_attempted_from(self, i + 1, self[i].last_attempted)
         ELSE last_attempted_from(self, i + 1, latest_valid_datetime)

last_attempted(self) == last_attempted_from(self, 1, None)

\* add_address that puts the new record in front of the others.
add_address_push_front(self, net_address, source) ==
    IF contains(self, net_address)
    THEN LET i == find_address_mut(self, net_address)
         IN  [self EXCEPT ![i] = rec_update_source_if_better(self[i], source)]
    ELSE sort(<<rec_new(net_address, source)>> \o self)

\* add_address without the check for a record already there.
add_address_always_push(self, net_address, source) ==
    sort(Append(self, rec_new(net_address, source)))

\* add_address that stores the given source over the one the record has.
add_address_overwriting_source(self, net_address, source) ==
    IF contains(self, net_address)
    THEN LET i == find_address_mut(self, net_address)
         IN  [self EXCEPT ![i].source = source]
    ELSE sort(Append(self, rec_new(net_address, source)))

add_address(self, net_address, source) ==
    IF contains(self, net_address)
    THEN LET i == find_address_mut(self, net_address)
         IN  [self EXCEPT ![i] = rec_update_source_if_better(self[i], source)]
    ELSE sort(Append(self, rec_new(net_address, source)))

\* First loop of update_addresses: raise the source of the records already there.
RECURSIVE update_sources(_, _, _, _)
update_sources(self, addresses, source, k) ==
    IF k > Len(addresses) THEN self
    ELSE LET i == find_address_mut(self, addresses[k])
         IN  update_sources(
                 IF i = 0 THEN self
                 ELSE [self EXCEPT ![i] = rec_update_source_if_better(self[i], source)],
                 addresses, source, k + 1)

\* to_add: the given addresses the registry does not hold, in the order given.
RECURSIVE to_add(_, _, _)
to_add(self, addresses, k) ==
    IF k > Len(addresses) THEN <<>>
    ELSE IF contains(self, addresses[k]) THEN to_add(self, addresses, k + 1)
    ELSE <<addresses[k]>> \o to_add(self, addresses, k + 1)

\* update_addresses that drops the records whose address is not in the new set.
update_addresses_pruning(self, addresses, source) ==
    LET upgraded == update_sources(self, addresses, source, 1)
        fresh == to_add(upgraded, addresses, 1)
        kept == SelectSeq(upgraded,
                          LAMBDA r : \E k \in 1..Len(addresses) : addresses[k] = r.address)
    IN  sort(kept \o from_addresses_with_source(fresh, source))

update_addresses(self, addresses, source) ==
    LET upgraded == update_sources(self, addresses, source, 1)
        fresh == to_add(upgraded, addresses, 1)
    IN  sort(upgraded \o from_addresses_with_source(fresh, source))

RECURSIVE merge_from(_, _, _)
merge_from(self, other_addresses, k) ==
    IF k > Len(other_addresses) THEN self
    ELSE LET addr == other_addresses[k]
             i == find_address_mut(self, addr.address)
         IN  merge_from(
                 IF i # 0 THEN [self EXCEPT ![i] = rec_merge(self[i], addr)]
                 ELSE Append(self, addr),
                 other_addresses, k + 1)

merge(self, other_addresses) == merge_from(self, other_addresses, 1)

\* The three reports return the new Vec and the bool the method returns.
\* update_latency that takes the sample for a success and ends the failure streak.
update_latency_clearing_failures(self, address, latency_measurement) ==
    LET i == find_address_mut(self, address)
    IN  IF i # 0
        THEN [addresses |-> sort([self EXCEPT ![i] =
                                    rec_reset_connection_attempts(
                                        rec_update_latency(self[i], latency_measurement))]),
              ret |-> TRUE]
        ELSE [addresses |-> self, ret |-> FALSE]

\* update_latency that leaves the Vec as it is after the update.
update_latency_unsorted(self, address, latency_measurement) ==
    LET i == find_address_mut(self, address)
    IN  IF i # 0
        THEN [addresses |-> [self EXCEPT ![i] = rec_update_latency(self[i], latency_measurement)],
              ret |-> TRUE]
        ELSE [addresses |-> self, ret |-> FALSE]

update_latency(self, address, latency_measurement) ==
    LET i == find_address_mut(self, address)
    IN  IF i # 0
        THEN [addresses |-> sort([self EXCEPT ![i] = rec_update_latency(self[i], latency_measurement)]),
              ret |-> TRUE]
        ELSE [addresses |-> self, ret |-> FALSE]

\* mark_last_seen_now that writes the two times itself and does not call the
\* record's mark_last_seen_now.
mark_last_seen_now_times_only(self, address, t1, t2) ==
    LET i == find_address_mut(self, address)
    IN  IF i # 0
        THEN [addresses |-> sort([self EXCEPT ![i].last_seen = t1, ![i].last_attempted = t2]),
              ret |-> TRUE]
        ELSE [addresses |-> self, ret |-> FALSE]

\* t1 is the clock read inside the record's method, t2 the registry's own read.
mark_last_seen_now(self, address, t1, t2) ==
    LET i == find_address_mut(self, address)
    IN  IF i # 0
        THEN [addresses |-> sort([self EXCEPT ![i] =
                                    [rec_mark_last_seen_now(self[i], t1) EXCEPT !.last_attempted = t2]]),
              ret |-> TRUE]
        ELSE [addresses |-> self, ret |-> FALSE]

\* mark_failed_connection_attempt that takes every failure for the first of a streak.
mark_failed_connection_attempt_restarting(self, address, t1, t2) ==
    LET i == find_address_mut(self, address)
    IN  IF i # 0
        THEN [addresses |-> sort([self EXCEPT ![i] =
                                    [rec_mark_failed_connection_attempt(
                                         [self[i] EXCEPT !.connection_attempts = 0], t1)
                                        EXCEPT !.last_attempted = t2,
                                               !.connection_attempts = self[i].connection_attempts + 1]]),
              ret |-> TRUE]
        ELSE [addresses |-> self, ret |-> FALSE]

mark_failed_connection_attempt(self, address, t1, t2) ==
    LET i == find_address_mut(self, address)
    IN  IF i # 0
        THEN [addresses |-> sort([self EXCEPT ![i] =
                                    [rec_mark_failed_connection_attempt(self[i], t1)
                                        EXCEPT !.last_attempted = t2]]),
              ret |-> TRUE]
        ELSE [addresses |-> self, ret |-> FALSE]

\* reset_connection_attempts whose loop stops one record short.
reset_connection_attempts_one_short(self) ==
    sort([i \in 1..Len(self) |->
            IF i < Len(self) THEN rec_reset_connection_attempts(self[i]) ELSE self[i]])

reset_connection_attempts(self) ==
    sort([i \in 1..Len(self) |-> rec_reset_connection_attempts(self[i])])

(* ------------------------------ the state ------------------------------ *)
VARIABLES
    reg,      \* the registry the caller is working on (self.addresses)
    other,    \* a second registry of the same peer, the argument of merge
    now,      \* the last value Utc::now() returned
    last,     \* the last call on reg: method, address (or address list) given, returned bool
    added,    \* the addresses given to add_address while reg has seen nothing else
    reported, \* per address, the failures reported since its last success, while
              \* reg has seen nothing but reports since it was built
    ops       \* number of calls made so far

vars == <<reg, other, now, last, added, reported, ops>>

Call(op, arg, ret) == [op |-> op, arg |-> arg, ret |-> ret]

NotTracked == [pure |-> FALSE, addrs |-> {}]

NoReports == [valid |-> FALSE, fails |-> [a \in Addrs |-> 0]]

Init ==
    /\ \E addresses \in AddrLists, source \in Sources :
           reg = from_addresses_with_source(addresses, source)
    /\ other = empty
    /\ now = 1
    /\ last = Call("new", 0, TRUE)
    /\ added = [pure |-> (reg = empty), addrs |-> {}]
    /\ reported = [valid |-> TRUE, fails |-> [a \in Addrs |-> 0]]
    /\ ops = 0

\* Utc::now() under a clock that does not go backwards.
ClockReads == {t \in now..(now + 1) : t <= MaxTime}

AddAddress ==
    /\ ops < MaxOps
    /\ \E net_address \in Addrs, source \in Sources :
           /\ reg' = add_address(reg, net_address, source)
           /\ last' = Call("add_address", net_address, TRUE)
           /\ added' = IF added.pure
                       THEN [added EXCEPT !.addrs = @ \cup {net_address}]
                       ELSE added
    /\ reported' = NoReports
    /\ ops' = ops + 1
    /\ UNCHANGED <<other, now>>

UpdateAddresses ==
    /\ ops < MaxOps
    /\ \E addresses \in AddrLists, source \in Sources :
           /\ reg' = update_addresses(reg, addresses, source)
           /\ last' = Call("update_addresses", addresses, TRUE)
    /\ added' = NotTracked
    /\ reported' = NoReports
    /\ ops' = ops + 1
    /\ UNCHANGED <<other, now>>

Merge ==
    /\ ops < MaxOps
    /\ reg' = merge(reg, other)
    /\ last' = Call("merge", 0, TRUE)
    /\ added' = NotTracked
    /\ reported' = NoReports
    /\ ops' = ops + 1
    /\ UNCHANGED <<other, now>>

\* self.merge(&self.clone())
MergeSelf ==
    /\ ops < MaxOps
    /\ reg' = merge(reg, reg)
    /\ last' = Call("merge_self", 0, TRUE)
    /\ added' = NotTracked
    /\ reported' = NoReports
    /\ ops' = ops + 1
    /\ UNCHANGED <<other, now>>

UpdateLatency ==
    /\ ops < MaxOps
    /\ \E address \in Addrs, sample \in Samples :
           /\ LET i == find_address_mut(reg, address)
              IN  IF i = 0 THEN TRUE ELSE reg[i].latency_sample_count < MaxCount
           /\ LET r == update_latency(reg, address, sample)
              IN  /\ reg' = r.addresses
                  /\ last' = Call("update_latency", address, r.ret)
    /\ added' = NotTracked
    /\ UNCHANGED reported
    /\ ops' = ops + 1
    /\ UNCHANGED <<other, now>>

MarkLastSeenNow ==
    /\ ops < MaxOps
    /\ \E address \in Addrs, t1 \in ClockReads :
           \E t2 \in {t \in t1..(t1 + 1) : t <= MaxTime} :
               LET r == mark_last_seen_now(reg, address, t1, t2)
               IN  /\ reg' = r.addresses
                   /\ last' = Call("mark_last_seen_now", address, r.ret)
                   /\ now' = IF r.ret THEN t2 ELSE now
                   /\ reported' = IF r.ret /\ reported.valid
                                  THEN [reported EXCEPT !.fails[address] = 0]
                                  ELSE reported
    /\ added' = NotTracked
    /\ ops' = ops + 1
    /\ UNCHANGED other

MarkFailedConnectionAttempt ==
    /\ ops < MaxOps
    /\ \E address \in Addrs, t1 \in ClockReads :
           \E t2 \in {t \in t1..(t1 + 1) : t <= MaxTime} :
               /\ LET i == find_address_mut(reg, address)
                  IN  IF i = 0 THEN TRUE ELSE reg[i].connection_attempts < MaxAttempts
               /\ LET r == mark_failed_connection_attempt(reg, address, t1, t2)
                  IN  /\ reg' = r.addresses
                      /\ last' = Call("mark_failed_connection_attempt", address, r.ret)
                      /\ now' = IF r.ret THEN t2 ELSE now
                      /\ reported' = IF r.ret /\ reported.valid
                                     THEN [reported EXCEPT !.fails[address] = @ + 1]
                                     ELSE reported
    /\ added' = NotTracked
    /\ ops' = ops + 1
    /\ UNCHANGED other

ResetConnectionAttempts ==
    /\ ops < MaxOps
    /\ reg' = reset_connection_attempts(reg)
    /\ last' = Call("reset_connection_attempts", 0, TRUE)
    /\ added' = NotTracked
    /\ reported' = NoReports
    /\ ops' = ops + 1
    /\ UNCHANGED <<other, now>>

\* The caller turns to the peer's other registry.
Swap ==
    /\ reg' = other
    /\ other' = reg
    /\ last' = Call("new", 0, TRUE)
    /\ added' = NotTracked
    /\ reported' = NoReports
    /\ UNCHANGED <<now, ops>>

Next ==
    \/ AddAddress
    \/ UpdateAddresses
    \/ Merge
    \/ MergeSelf
    \/ UpdateLatency
    \/ MarkLastSeenNow
    \/ MarkFailedConnectionAttempt
    \/ ResetConnectionAttempts
    \/ Swap

Spec == Init /\ [][Next]_vars

(* ------------------------------ the claims ----------------------------- *)
AddrSet(self) == {self[i].address : i \in 1..Len(self)}

Range(self) == {self[i] : i \in 1..Len(self)}

\* A record's statistics: everything but its source.
StatsOf(r) ==
    <<r.address, r.last_seen, r.last_attempted, r.connection_attempts,
      r.avg_latency, r.latency_sample_count, r.offline_since>>

\* x <= y on Option<Duration> with the unknown latency last.
LatencyLeq(x, y) == y = None \/ (x # None /\ x <= y)

PriorityOrdered(self) ==
    \A i, j \in 1..Len(self) :
        i < j =>
            /\ ~(self[i].connection_attempts > 0 /\ self[j].connection_attempts = 0)
            /\ (self[i].connection_attempts = self[j].connection_attempts
                    => LatencyLeq(self[i].avg_latency, self[j].avg_latency))

\* C1: in every state reached by mutating calls (merge among them) no record
\* with connection_attempts = 0 comes after a record with connection_attempts > 0,
\* and among records with equal connection_attempts avg_latency is non-decreasing
\* with the unknown latency last.
C1_PriorityInvariant == PriorityOrdered(reg)

\* C2: best() is none exactly when the registry is empty, otherwise it is the
\* first element iter() yields; and when some record has connection_attempts = 0
\* the record best() returns has connection_attempts = 0.
C2_BestIsZeroFailureHead ==
    /\ (best(reg) = <<>>) <=> (len(reg) = 0)
    /\ len(reg) > 0 => best(reg)[1].address = iter(reg)[1]
    /\ (\E i \in 1..Len(reg) : reg[i].connection_attempts = 0)
           => best(reg)[1].connection_attempts = 0

\* C3: in a registry built by from_addresses_with_source and changed by
\* add_address, update_addresses and merge, no two records have the same
\* address, also when a given address list names an address more than once.
C3_UniqueAddresses ==
    \A i, j \in 1..Len(reg) : i # j => reg[i].address # reg[j].address

\* The number of places of self whose image under F is x.
CountBy(F(_), self, x) == Cardinality({i \in 1..Len(self) : F(self[i]) = x})

\* s and t hold the same images under F, each as often.
SameBagBy(F(_), s, t) ==
    /\ Len(s) = Len(t)
    /\ \A i \in 1..Len(s) : CountBy(F, s, F(s[i])) = CountBy(F, t, F(s[i]))

Identity(r) == r

Remove(self, i) == SubSeq(self, 1, i - 1) \o SubSeq(self, i + 1, Len(self))

\* C4: add_address with an address the registry already holds leaves len() and
\* the order of the records unchanged, and after add_address calls only, len()
\* does not exceed the number of distinct addresses added.
C4_IdempotentInsertion ==
    [][/\ (last'.op = "add_address" /\ contains(reg, last'.arg))
              => (len(reg') = len(reg) /\ iter(reg') = iter(reg))
       /\ added'.pure => len(reg') <= Cardinality(added'.addrs)]_vars

\* An address was added twice to a registry that began empty.
C4_Witness ==
    /\ last.op = "add_address"
    /\ added.pure
    /\ ops > Cardinality(added.addrs)
    /\ len(reg) = Cardinality(added.addrs)

AllFailing(self) ==
    /\ self # <<>>
    /\ \A i \in 1..Len(self) : self[i].connection_attempts > 0

\* C5: the registry's offline_at() is Some iff the registry is not empty and
\* every record has connection_attempts > 0; when Some, it is the earliest of
\* the records' offline-streak start times.
C5_OfflineAggregation ==
    /\ (offline_at(reg) # None) <=> AllFailing(reg)
    /\ AllFailing(reg) =>
           /\ \A i \in 1..Len(reg) : offline_at(reg) <= rec_offline_at(reg[i])
           /\ \E i \in 1..Len(reg) : offline_at(reg) = rec_offline_at(reg[i])

\* Every record is failing and the earliest streak is not the first record's.
C5_Witness ==
    /\ AllFailing(reg)
    /\ Len(reg) >= 2
    /\ \E i \in 2..Len(reg) : rec_offline_at(reg[i]) < rec_offline_at(reg[1])
    /\ offline_at(reg) # None

ResetHistory(r) == <<r.address, r.last_seen, r.last_attempted, r.avg_latency>>

\* C6: after reset_connection_attempts() every record has connection_attempts = 0
\* and no offline streak, and the records' addresses, last_seen, last_attempted
\* and avg_latency are those of before the call.
C6_Reset ==
    [][last'.op = "reset_connection_attempts" =>
           /\ \A i \in 1..Len(reg') :
                  /\ reg'[i].connection_attempts = 0
                  /\ rec_offline_at(reg'[i]) = None
                  /\ reg'[i].offline_since = None
           /\ SameBagBy(ResetHistory, reg, reg')]_vars

\* A failure and then the reset: the record was attempted, never seen, and has
\* no failure left.
C6_Witness ==
    /\ last.op = "reset_connection_attempts"
    /\ ops = 2
    /\ \E i \in 1..Len(reg) :
           /\ reg[i].last_attempted # None
           /\ reg[i].last_seen = None
           /\ reg[i].connection_attempts = 0

\* C7: merging a copy of a registry into it changes nothing: the same records
\* in the same order with the same source and statistics.
C7_SelfMergeNoChange == [][last'.op = "merge_self" => reg' = reg]_vars

\* C8: when reg and other share no address, after reg.merge(other) the address
\* set of reg is the union of the two, every record carries the statistics it
\* had in reg or in other, and other is unchanged.
C8_DisjointMerge ==
    [][(last'.op = "merge" /\ AddrSet(reg) \cap AddrSet(other) = {}) =>
           /\ AddrSet(reg') = AddrSet(reg) \cup AddrSet(other)
           /\ \A j \in 1..Len(reg') :
                  StatsOf(reg'[j]) \in {StatsOf(r) : r \in Range(reg) \cup Range(other)}
           /\ other' = other]_vars

ReportOps == {"update_latency", "mark_last_seen_now", "mark_failed_connection_attempt"}

\* q is r after the report op made at clock t.
Reported(op, r, q, t) ==
    /\ q.address = r.address
    /\ q.source = r.source
    /\ op = "update_latency" =>
           /\ q.latency_sample_count = r.latency_sample_count + 1
           /\ q.avg_latency # None
           /\ q.connection_attempts = r.connection_attempts
    /\ op = "mark_last_seen_now" =>
           /\ q.last_seen >= t
           /\ q.last_attempted >= q.last_seen
           /\ q.connection_attempts = 0
    /\ op = "mark_failed_connection_attempt" =>
           /\ q.last_attempted >= t
           /\ q.connection_attempts = r.connection_attempts + 1

\* C9: update_latency, mark_last_seen_now and mark_failed_connection_attempt
\* return true iff the registry holds the address; on false the registry is as
\* before; on true the record has been changed and the records re-sorted.
C9_AbsentAddressNoOp ==
    [][last'.op \in ReportOps =>
           /\ last'.ret = contains(reg, last'.arg)
           /\ ~last'.ret => reg' = reg
           /\ last'.ret =>
                  /\ PriorityOrdered(reg')
                  /\ \E j \in 1..Len(reg') :
                         /\ Reported(last'.op, reg[find_address_mut(reg, last'.arg)], reg'[j], now)
                         /\ SameBagBy(Identity, Remove(reg, find_address_mut(reg, last'.arg)),
                                      Remove(reg', j))]_vars

\* A report for an address the registry, not empty, does not hold.
C9_Witness ==
    /\ last.op \in ReportOps
    /\ ~last.ret
    /\ reg # <<>>
    /\ \E i \in 1..Len(reg) : reg[i].last_attempted # None

SourcesOf(self, address) == {self[i].source : i \in {j \in 1..Len(self) : self[j].address = address}}

MinSource(self, address) ==
    CHOOSE s \in SourcesOf(self, address) : \A x \in SourcesOf(self, address) : s <= x

MaxSource(self, address) ==
    CHOOSE s \in SourcesOf(self, address) : \A x \in SourcesOf(self, address) : s >= x

\* C11: provenance never downgrades. add_address, update_addresses and merge
\* never lower the trust rank stored for an address the registry holds, and
\* add_address on an address already held leaves every record where it is and
\* as it is, except that the source of the record found may be raised.
C11_ProvenanceNeverDowngrades ==
    [][/\ last'.op \in {"add_address", "update_addresses", "merge", "merge_self"} =>
           \A address \in AddrSet(reg) :
               /\ address \in AddrSet(reg')
               /\ MinSource(reg', address) >= MinSource(reg, address)
               /\ MaxSource(reg', address) >= MaxSource(reg, address)
       /\ (last'.op = "add_address" /\ contains(reg, last'.arg)) =>
           /\ Len(reg') = Len(reg)
           /\ \A j \in 1..Len(reg) :
                  /\ StatsOf(reg'[j]) = StatsOf(reg[j])
                  /\ reg'[j].source >= reg[j].source
                  /\ j # find_address_mut(reg, last'.arg) => reg'[j] = reg[j]]_vars

\* add_address was given an address whose record has statistics and a source
\* above the lowest: the record kept both.
C11_Witness ==
    /\ last.op = "add_address"
    /\ \E i \in 1..Len(reg) :
           /\ reg[i].address = last.arg
           /\ reg[i].last_attempted # None
           /\ reg[i].source > 1

\* The record at j of after is the one the call on address made of the first
\* record with that address; the other records are those of before.
ReplacesFound(before, after, address, j) ==
    /\ after[j].address = address
    /\ SameBagBy(Identity, Remove(before, find_address_mut(before, address)), Remove(after, j))

\* C12: the failure-streak invariant. In every state each record with
\* connection_attempts > 0 has offline_at() defined, and right after a
\* mark_last_seen_now(address) that returned true the record it found has
\* connection_attempts = 0 and no offline_at().
C12_FailureStreak ==
    [][/\ \A r \in Range(reg') \cup Range(other') :
              r.connection_attempts > 0 => rec_offline_at(r) # None
       /\ (last'.op = "mark_last_seen_now" /\ last'.ret) =>
              /\ \E j \in 1..Len(reg') : ReplacesFound(reg, reg', last'.arg, j)
              /\ \A j \in 1..Len(reg') :
                     ReplacesFound(reg, reg', last'.arg, j) =>
                         /\ reg'[j].connection_attempts = 0
                         /\ rec_offline_at(reg'[j]) = None
                         /\ reg'[j].last_seen # None]_vars

\* A success was reported for one address while another record of the
\* registry is in a failure streak.
C12_Witness ==
    /\ last.op = "mark_last_seen_now"
    /\ last.ret
    /\ \E i, j \in 1..Len(reg) :
           /\ reg[i].address = last.arg
           /\ reg[i].connection_attempts = 0
           /\ reg[i].last_seen # None
           /\ reg[j].connection_attempts > 0
           /\ rec_offline_at(reg[j]) # None

\* The sequences that hold the elements of self in some order.
Reorderings(self) ==
    {[i \in 1..Len(self) |-> self[p[i]]] :
        p \in {q \in [1..Len(self) -> 1..Len(self)] :
                  \A i, j \in 1..Len(self) : q[i] = q[j] => i = j}}

\* C13: last_seen() is the latest last_seen of the records that have one, it is
\* None exactly when no record has one, and it is the same for every order of
\* the records.
C13_LastSeenIsMaximum ==
    /\ \A i \in 1..Len(reg) : reg[i].last_seen # None => last_seen(reg) >= reg[i].last_seen
    /\ last_seen(reg) # None => \E i \in 1..Len(reg) : reg[i].last_seen = last_seen(reg)
    /\ (last_seen(reg) = None) <=> (\A i \in 1..Len(reg) : reg[i].last_seen = None)
    /\ \A reordered \in Reorderings(reg) : last_seen(reordered) = last_seen(reg)

\* Two records were seen at different times and the later one is not the last
\* record.
C13_Witness ==
    \E i, j \in 1..Len(reg) :
        /\ i < j
        /\ reg[j].last_seen # None
        /\ reg[i].last_seen > reg[j].last_seen
        /\ last_seen(reg) = reg[i].last_seen

(* ------------------- sequences of calls on a registry ------------------- *)
MaxCalls == 2

\* One call of a registry method with its arguments; merge is given a registry
\* just built with the one address.
Calls ==
    [op : {"add_address", "merge"}, address : Addrs, source : Sources, sample : {0}]
        \cup [op : {"update_latency"}, address : Addrs, source : {1}, sample : Samples]
        \cup [op : {"mark_last_seen_now", "mark_failed_connection_attempt"},
              address : Addrs, source : {1}, sample : {0}]
        \cup [op : {"reset_connection_attempts"}, address : {1}, source : {1}, sample : {0}]

CallSeqs == UNION {[1..n -> Calls] : n \in 0..MaxCalls}

\* The registry after the call c made when the clock reads t.
EagerCall(self, c, t) ==
    CASE c.op = "add_address" -> add_address(self, c.address, c.source)
      [] c.op = "merge" -> merge(self, from_addresses_with_source(<<c.address>>, c.source))
      [] c.op = "update_latency" -> update_latency(self, c.address, c.sample).addresses
      [] c.op = "mark_last_seen_now" -> mark_last_seen_now(self, c.address, t, t).addresses
      [] c.op = "mark_failed_connection_attempt" ->
             mark_failed_connection_attempt(self, c.address, t, t).addresses
      [] c.op = "reset_connection_attempts" -> reset_connection_attempts(self)

\* The same call on a registry that keeps its records unsorted: the record's
\* method on the first record with the address, a new record at the end.
LazyCall(self, c, t) ==
    LET i == find_address_mut(self, c.address)
    IN  CASE c.op = "add_address" ->
                 IF i # 0 THEN [self EXCEPT ![i] = rec_update_source_if_better(self[i], c.source)]
                 ELSE Append(self, rec_new(c.address, c.source))
          [] c.op = "merge" -> merge(self, from_addresses_with_source(<<c.address>>, c.source))
          [] c.op = "update_latency" ->
                 IF i # 0 THEN [self EXCEPT ![i] = rec_update_latency(self[i], c.sample)] ELSE self
          [] c.op = "mark_last_seen_now" ->
                 IF i # 0 THEN [self EXCEPT ![i] = rec_mark_last_seen_now(self[i], t)] ELSE self
          [] c.op = "mark_failed_connection_attempt" ->
                 IF i # 0 THEN [self EXCEPT ![i] = rec_mark_failed_connection_attempt(self[i], t)]
                 ELSE self
          [] c.op = "reset_connection_attempts" ->
                 [j \in 1..Len(self) |-> rec_reset_connection_attempts(self[j])]

\* The calls k, k + 1, ... of a sequence, the clock advancing with each call.
RECURSIVE RunEager(_, _, _)
RunEager(self, calls, k) ==
    IF k > Len(calls) THEN self
    ELSE RunEager(EagerCall(self, calls[k], now + k), calls, k + 1)

RECURSIVE RunLazy(_, _, _)
RunLazy(self, calls, k) ==
    IF k > Len(calls) THEN self
    ELSE RunLazy(LazyCall(self, calls[k], now + k), calls, k + 1)

\* iter() of the lazy registry: the records sorted by the record ordering when read.
LazyIter(self) == iter(sort(self))

\* C14: eager and lazy ordering agree. For every sequence of calls on a
\* registry just built, iter() of the registry that sorts on every mutation
\* equals the sequence the registry that keeps its records unsorted yields by
\* sorting them when iter() is called.
C14_EagerLazyAgree ==
    (ops = 0 /\ last.op = "new") =>
        \A calls \in CallSeqs : iter(RunEager(reg, calls, 1)) = LazyIter(RunLazy(reg, calls, 1))

NoStatistics(self) ==
    \A i \in 1..Len(self) : self[i] = rec_new(self[i].address, self[i].source)

\* C15: insertion order breaks ties. from_addresses_with_source keeps the
\* addresses in the order given, and add_address on a registry whose records
\* have no statistics puts a new address after all the others and leaves an
\* address already held where it is, so best() stays the first address supplied.
C15_InsertionOrderBreaksTies ==
    [][/\ last'.op = "new" =>
              \A addresses \in AddrLists, source \in Sources :
                  /\ iter(from_addresses_with_source(addresses, source)) = addresses
                  /\ NoStatistics(from_addresses_with_source(addresses, source))
       /\ (last'.op = "add_address" /\ NoStatistics(reg')) =>
              /\ iter(reg') = IF contains(reg, last'.arg) THEN iter(reg)
                              ELSE Append(iter(reg), last'.arg)
              /\ reg # <<>> => best(reg') = <<reg'[1]>> /\ reg'[1].address = reg[1].address
              /\ reg = <<>> => best(reg') = <<rec_new(last'.arg, reg'[1].source)>>]_vars

\* Two addresses were added to an empty registry, the higher one first, and
\* no record has statistics: the records are in the order of the calls.
C15_Witness ==
    /\ last.op = "add_address"
    /\ added.pure
    /\ NoStatistics(reg)
    /\ Len(reg) = 2
    /\ reg[1].address > reg[2].address
    /\ best(reg) = <<reg[1]>>

MarkOps == {"mark_last_seen_now", "mark_failed_connection_attempt"}

AttemptsOf(r) == <<r.address, r.connection_attempts>>

\* C16: after any sequence of mark_failed_connection_attempt and
\* mark_last_seen_now calls on a registry just built, each record's
\* connection_attempts is the number of failures reported for its address since
\* the last success reported for that address, and a report for one address
\* leaves the connection_attempts of the records of every other address as they were.
C16_AttemptsCountReports ==
    [][/\ reported'.valid =>
              \A i \in 1..Len(reg') :
                  reg'[i].connection_attempts = reported'.fails[reg'[i].address]
       /\ last'.op \in MarkOps =>
              SameBagBy(AttemptsOf,
                        SelectSeq(reg, LAMBDA r : r.address # last'.arg),
                        SelectSeq(reg', LAMBDA r : r.address # last'.arg))]_vars

\* C17: the start of a failure streak is fixed for the length of the streak.
\* When mark_failed_connection_attempt finds a record that is already failing,
\* the record's offline_at() after the call is the one of before the call, the
\* time of the first failure of the streak, and its last_attempted is the time
\* of this call, not earlier than the one before; when the record was not
\* failing, offline_at() is the time of this call.
C17_StreakStartFixed ==
    [][(last'.op = "mark_failed_connection_attempt" /\ last'.ret) =>
           LET r == reg[find_address_mut(reg, last'.arg)]
           IN  /\ \E j \in 1..Len(reg') : ReplacesFound(reg, reg', last'.arg, j)
               /\ \A j \in 1..Len(reg') :
                      ReplacesFound(reg, reg', last'.arg, j) =>
                          /\ reg'[j].last_attempted = now'
                          /\ reg'[j].last_attempted >= r.last_attempted
                          /\ r.connection_attempts > 0 =>
                                 rec_offline_at(reg'[j]) = rec_offline_at(r)
                          /\ r.connection_attempts = 0 =>
                                 /\ rec_offline_at(reg'[j]) >= now
                                 /\ rec_offline_at(reg'[j]) <= now']_vars

\* A second failure in a row: the record's streak began before its last attempt.
C17_Witness ==
    /\ last.op = "mark_failed_connection_attempt"
    /\ last.ret
    /\ \E i \in 1..Len(reg) :
           /\ reg[i].address = last.arg
           /\ reg[i].connection_attempts = 2
           /\ reg[i].last_attempted = now
           /\ rec_offline_at(reg[i]) # None
           /\ rec_offline_at(reg[i]) < reg[i].last_attempted

\* The running mean after one more sample, n samples having the mean old_mean.
MeanWith(old_mean, n, sample) ==
    ((IF n = 0 THEN 0 ELSE old_mean) * n + sample) \div (n + 1)

\* C18: update_latency(address, sample) on a contained address changes only
\* the running mean and the sample count of the record found, to
\* (old_mean * n + sample) / (n + 1) and n + 1; that record's other fields, and
\* every other record, are as before, whatever their positions.
C18_UpdateLatencyFrame ==
    [][(last'.op = "update_latency" /\ last'.ret) =>
           LET r == reg[find_address_mut(reg, last'.arg)]
           IN  /\ \E j \in 1..Len(reg') : ReplacesFound(reg, reg', last'.arg, j)
               /\ \A j \in 1..Len(reg') :
                      ReplacesFound(reg, reg', last'.arg, j) =>
                          /\ reg'[j] = [r EXCEPT !.avg_latency = reg'[j].avg_latency,
                                                 !.latency_sample_count = r.latency_sample_count + 1]
                          /\ rec_offline_at(reg'[j]) = rec_offline_at(r)
                          /\ \E sample \in Samples :
                                 reg'[j].avg_latency =
                                     MeanWith(r.avg_latency, r.latency_sample_count, sample)]_vars

\* A second sample for a record, next to a record of another address that has
\* statistics: the mean lies between the two samples.
C18_Witness ==
    /\ last.op = "update_latency"
    /\ last.ret
    /\ \E i, j \in 1..Len(reg) :
           /\ reg[i].address = last.arg
           /\ reg[i].latency_sample_count = 2
           /\ reg[i].avg_latency = MeanWith(0, 1, MaxSample)
           /\ reg[j].address # last.arg
           /\ reg[j].last_attempted # None

\* One outcome a connection task reports for an address.
Reports ==
    {c \in Calls : c.op \in {"update_latency", "mark_last_seen_now",
                             "mark_failed_connection_attempt"}}

\* C19: the priority order is deterministic under interleaving. When two tasks
\* each report one outcome, for two distinct addresses the registry holds, and
\* each report is applied atomically, the two orders of applying them end in
\* registries whose iter() yields the same sequence of addresses.
C19_InterleavingDeterministic ==
    \A c1, c2 \in Reports :
        (c1.address # c2.address /\ contains(reg, c1.address) /\ contains(reg, c2.address)) =>
            iter(RunEager(reg, <<c1, c2>>, 1)) = iter(RunEager(reg, <<c2, c1>>, 1))

\* C20: with a clock that never goes backwards, in every state whenever the
\* registry's last_seen() is defined its last_attempted() is defined and not
\* earlier, and so it is for each single record.
C20_SeenNotAfterAttempted ==
    /\ last_seen(reg) # None =>
           /\ last_attempted(reg) # None
           /\ last_seen(reg) <= last_attempted(reg)
    /\ \A r \in Range(reg) \cup Range(other) :
           r.last_seen # None =>
               /\ r.last_attempted # None
               /\ r.last_seen <= r.last_attempted

\* The record seen last is not the one attempted last: the registry's
\* last_seen() is earlier than its last_attempted().
C20_Witness ==
    /\ Len(reg) >= 2
    /\ last_seen(reg) # None
    /\ last_seen(reg) < last_attempted(reg)
    /\ \E i, j \in 1..Len(reg) :
           /\ i < j
           /\ reg[i].last_seen = last_seen(reg)
           /\ reg[i].last_attempted < reg[j].last_attempted

====
